---- MODULE Spec2Model ----
(***************************************************************************)
(* Model of the Unity WebGL loader of src/Build/build.framework.js: the    *)
(* asynchronous initialize() sequence started by the constructor, the      *)
(* filesystem-mount hook and WebGL factory it installs on the              *)
(* configuration object, and the synchronous sendMessage call-in with its  *)
(* marshaling of strings into the engine heap.                             *)
(***************************************************************************)
EXTENDS Integers, Sequences, FiniteSets, TLC

VARIABLES globals, environment, Module, detached, isReady, pc, awaited,
          initPromise, heap, call, fs, gl, steps

vars == <<globals, environment, Module, detached, isReady, pc, awaited,
          initPromise, heap, call, fs, gl, steps>>

\* ---------------------------------------------------------------- bounds
MaxPtr == 4          \* addresses 1..MaxPtr of the engine heap
MaxFault == 10       \* ordinal of the engine call that throws (0 = none)
MaxPreRuns == 1      \* times the engine runs its pre-run stage
MaxContexts == 1     \* times the engine asks the factory for a context

Ptrs == 1..MaxPtr

\* ------------------------------------------------- ambient globals (host)
WindowKinds == {"undeclared", "object", "function"}
AudioCtors == {"AudioContext", "webkitAudioContext", "none", "throws"}

Globals ==
  { g \in [window : WindowKinds, audio : AudioCtors, importScripts : BOOLEAN,
           node : BOOLEAN, currentScript : BOOLEAN, filename : BOOLEAN] :
      /\ (g.window = "undeclared" => g.audio = "none")
      /\ (g.window = "function" => g.audio \in {"AudioContext", "none"})
      /\ (g.window # "object" => ~g.currentScript)
      /\ (~g.node => g.filename) }

BrowserGlobals ==
  [window |-> "object", audio |-> "AudioContext", importScripts |-> FALSE,
   node |-> FALSE, currentScript |-> TRUE, filename |-> TRUE]

\* ------------------------------------------------------------ the loader
detectEnvironment(g) ==
  [isWeb |-> g.window = "object",
   isWorker |-> g.importScripts,
   isNode |-> g.node]

Resolved(v) == [ok |-> TRUE, value |-> v, error |-> "none"]
Rejected(e) == [ok |-> FALSE, value |-> "undefined", error |-> e]

getScriptDirectory(env, g) ==
  IF env.isWeb /\ g.currentScript
  THEN Resolved("document.currentScript.src")
  ELSE IF env.isNode
       THEN IF g.filename THEN Resolved("__filename")
            ELSE Rejected("ReferenceError: __filename is not defined")
       ELSE Resolved("")

\* the object literal {} of the constructor
EmptyObject ==
  [ready |-> "absent", hasHooks |-> FALSE, preRun |-> <<>>, postRun |-> <<>>,
   scriptDirectory |-> "absent", readyPromiseResolve |-> FALSE,
   readyPromiseReject |-> FALSE, GL |-> FALSE, WEBAudio |-> "absent",
   ctx |-> "absent", abi |-> FALSE]

\* the object createModule returns
createModule(scriptDirectory) ==
  [EmptyObject EXCEPT !.ready = "pending", !.hasHooks = TRUE,
                      !.scriptDirectory = scriptDirectory]

\* the promise executor of createModule runs while this.Module is still the
\* object held before the assignment of line 35: the handles land on it
createModuleExecutor(thisModule) ==
  [thisModule EXCEPT !.readyPromiseResolve = TRUE, !.readyPromiseReject = TRUE]

setupFilesystemAlways(M, env) ==
  [M EXCEPT !.preRun = Append(@, "mountIDBFS")]

setupFilesystemTwice(M, env) ==
  IF ~env.isWorker
  THEN [M EXCEPT !.preRun = Append(Append(@, "mountIDBFS"), "mountIDBFS")]
  ELSE M

setupFilesystem(M, env) ==
  IF ~env.isWorker THEN [M EXCEPT !.preRun = Append(@, "mountIDBFS")] ELSE M

setupWebGLNoInstall(M) == M

setupWebGL(M) == [M EXCEPT !.GL = TRUE]

\* result of setupAudio: the module with WEBAudio attached, or the error
\* thrown while the object literal of line 124 is evaluated
setupAudio(M, g) ==
  IF g.window = "undeclared"
  THEN [ok |-> FALSE, module |-> M, error |-> "ReferenceError: window is not defined"]
  ELSE IF g.audio = "none"
  THEN [ok |-> FALSE, module |-> M, error |-> "TypeError: not a constructor"]
  ELSE IF g.audio = "throws"
  THEN [ok |-> FALSE, module |-> M, error |-> "AudioContext constructor threw"]
  ELSE [ok |-> TRUE, module |-> [M EXCEPT !.WEBAudio = g.audio], error |-> "none"]

UnityError(message, cause) ==
  [name |-> "UnityError", message |-> message, cause |-> cause]

NoError == [name |-> "none", message |-> "none", cause |-> "none"]

InitializeCatchNoCause(error) ==
  [state |-> "rejected", reason |-> UnityError("Initialization failed", "none")]

\* catch block of initialize()
InitializeCatch(error) ==
  [state |-> "rejected", reason |-> UnityError("Initialization failed", error)]

\* ------------------------------------------------------------------ state
NoCall ==
  [kind |-> "none", abi |-> FALSE, gameObject |-> <<>>, func |-> <<>>,
   param |-> [t |-> "undefined", s |-> <<>>, n |-> 0],
   trace |-> <<>>, err |-> "none", before |-> {}]

NoFs == [log |-> <<>>, runDeps |-> 0, pending |-> 0, warnings |-> 0, runs |-> 0,
         thrown |-> 0]

NoGl == [got |-> "none", returned |-> "none", thrown |-> "none", calls |-> 0,
         passed |-> "absent"]

\* state when the constructor returns: initialize() has run up to its first
\* await, getScriptDirectory() has already produced its promise
Constructed(g) ==
  /\ globals = g
  /\ environment = detectEnvironment(g)
  /\ Module = EmptyObject
  /\ detached = EmptyObject
  /\ isReady = FALSE
  /\ pc = "getScriptDirectory"
  /\ awaited = getScriptDirectory(detectEnvironment(g), g)
  /\ initPromise = [state |-> "pending", reason |-> NoError]
  /\ heap = {}
  /\ call = NoCall
  /\ fs = NoFs
  /\ gl = NoGl
  /\ steps = <<"getScriptDirectory">>

Init == \E g \in Globals : Constructed(g)

\* --------------------------------------------------- initialize(), resumed
Fail ==
  /\ initPromise' = InitializeCatch(awaited.error)
  /\ pc' = "failed"
  /\ UNCHANGED <<Module, detached, isReady, awaited, steps>>

\* lines 34-36: the awaited path arrives, the module is created and
\* setupFilesystem() runs up to the next await
ResumeGetScriptDirectory ==
  /\ pc = "getScriptDirectory"
  /\ IF awaited.ok
     THEN /\ detached' = createModuleExecutor(Module)
          /\ Module' = setupFilesystem(createModule(awaited.value), environment)
          /\ awaited' = Resolved("undefined")
          /\ pc' = "setupFilesystem"
          /\ steps' = steps \o <<"createModule", "setupFilesystem">>
          /\ UNCHANGED <<isReady, initPromise>>
     ELSE Fail
  /\ UNCHANGED <<globals, environment, heap, call, fs, gl>>

\* line 37
ResumeSetupFilesystem ==
  /\ pc = "setupFilesystem"
  /\ Module' = setupWebGL(Module)
  /\ awaited' = Resolved("undefined")
  /\ pc' = "setupWebGL"
  /\ steps' = Append(steps, "setupWebGL")
  /\ UNCHANGED <<globals, environment, detached, isReady, initPromise, heap,
                 call, fs, gl>>

\* line 38
ResumeSetupWebGL ==
  /\ pc = "setupWebGL"
  /\ LET r == setupAudio(Module, globals)
     IN /\ Module' = r.module
        /\ awaited' = IF r.ok THEN Resolved("undefined") ELSE Rejected(r.error)
  /\ pc' = "setupAudio"
  /\ steps' = Append(steps, "setupAudio")
  /\ UNCHANGED <<globals, environment, detached, isReady, initPromise, heap,
                 call, fs, gl>>

ResumeSetupAudioNoAwait ==
  /\ pc = "setupAudio"
  /\ isReady' = TRUE
  /\ pc' = "done"
  /\ initPromise' = [state |-> "fulfilled", reason |-> NoError]
  /\ UNCHANGED <<Module, detached, awaited, steps>>
  /\ UNCHANGED <<globals, environment, heap, call, fs, gl>>

\* lines 39-40, or the catch block
ResumeSetupAudio ==
  /\ pc = "setupAudio"
  /\ IF awaited.ok
     THEN /\ isReady' = TRUE
          /\ pc' = "done"
          /\ initPromise' = [state |-> "fulfilled", reason |-> NoError]
          /\ UNCHANGED <<Module, detached, awaited, steps>>
     ELSE Fail
  /\ UNCHANGED <<globals, environment, heap, call, fs, gl>>

Initialize ==
  \/ ResumeGetScriptDirectory
  \/ ResumeSetupFilesystem
  \/ ResumeSetupWebGL
  \/ ResumeSetupAudio

\* ------------------------------------------------ sendMessage (call-in)
\* strings are sequences of code points
Utf8Bytes(cp) == IF cp < 128 THEN 1 ELSE IF cp < 2048 THEN 2 ELSE IF cp < 65536 THEN 3 ELSE 4

RECURSIVE lengthBytesUTF8(_)
lengthBytesUTF8(str) ==
  IF str = <<>> THEN 0 ELSE Utf8Bytes(Head(str)) + lengthBytesUTF8(Tail(str))

\* one call through the configuration object, as the engine sees it
Ev(op, a, b, c, s, threw) ==
  [op |-> op, a |-> a, b |-> b, c |-> c, s |-> s, threw |-> threw]

Log(m, e) == [m EXCEPT !.trace = Append(@, e)]
Throw(m, e) == [m EXCEPT !.err = e]
Tick(m) == [m EXCEPT !.n = @ + 1]

MinOf(S) == CHOOSE x \in S : \A y \in S : x <= y

stringToUTF8GlobalModule(m0, str, fault) ==
  LET m1 == Tick(m0) IN
  IF m1.n = fault
  THEN [m |-> Throw(Log(m1, Ev("lengthBytesUTF8", 0, 0, 0, str, TRUE)),
                    "lengthBytesUTF8 threw"), ptr |-> 0]
  ELSE
  LET len == lengthBytesUTF8(str) + 1
      m2 == Tick(Log(m1, Ev("lengthBytesUTF8", len - 1, 0, 0, str, FALSE)))
  IN
  IF m2.n = fault \/ Ptrs \ m2.heap = {}
  THEN [m |-> Throw(Log(m2, Ev("_malloc", len, 0, 0, <<>>, TRUE)), "_malloc threw"),
        ptr |-> 0]
  ELSE
  LET ptr == MinOf(Ptrs \ m2.heap)
      m3 == Tick(Log([m2 EXCEPT !.heap = @ \cup {ptr}],
                     Ev("_malloc", len, ptr, 0, <<>>, FALSE)))
  IN
  IF m3.n = fault
  THEN [m |-> Throw(Log(m3, Ev("stringToUTF8", ptr, len, 0, str, TRUE)),
                    "stringToUTF8 threw"), ptr |-> 0]
  ELSE [m |-> Log(m3, Ev("stringToUTF8", ptr, len, 0, str, FALSE)), ptr |-> ptr]

\* lines 168-174; m is the engine as the call finds it, the result is the
\* engine afterwards and the pointer returned (0 when the call threw)
stringToUTF8(m0, str, fault) ==
  IF ~m0.abi
  THEN [m |-> Throw(m0, "TypeError: Module.lengthBytesUTF8 is not a function"), ptr |-> 0]
  ELSE
  LET m1 == Tick(m0) IN
  IF m1.n = fault
  THEN [m |-> Throw(Log(m1, Ev("lengthBytesUTF8", 0, 0, 0, str, TRUE)),
                    "lengthBytesUTF8 threw"), ptr |-> 0]
  ELSE
  LET len == lengthBytesUTF8(str) + 1
      m2 == Tick(Log(m1, Ev("lengthBytesUTF8", len - 1, 0, 0, str, FALSE)))
  IN
  IF m2.n = fault \/ Ptrs \ m2.heap = {}
  THEN [m |-> Throw(Log(m2, Ev("_malloc", len, 0, 0, <<>>, TRUE)), "_malloc threw"),
        ptr |-> 0]
  ELSE
  LET ptr == MinOf(Ptrs \ m2.heap)
      m3 == Tick(Log([m2 EXCEPT !.heap = @ \cup {ptr}],
                     Ev("_malloc", len, ptr, 0, <<>>, FALSE)))
  IN
  IF m3.n = fault
  THEN [m |-> Throw(Log(m3, Ev("stringToUTF8", ptr, len, 0, str, TRUE)),
                    "stringToUTF8 threw"), ptr |-> 0]
  ELSE [m |-> Log(m3, Ev("stringToUTF8", ptr, len, 0, str, FALSE)), ptr |-> ptr]

\* an engine entry point: it is entered, and throws when the fault says so
EntryPoint(m0, name, objPtr, funcPtr, arg, fault) ==
  LET m1 == Tick(m0) IN
  IF m1.n = fault
  THEN Throw(Log(m1, Ev(name, objPtr, funcPtr, arg, <<>>, TRUE)), "entry point threw")
  ELSE Log(m1, Ev(name, objPtr, funcPtr, arg, <<>>, FALSE))

Undefined == [t |-> "undefined", s |-> <<>>, n |-> 0]
Str(s) == [t |-> "string", s |-> s, n |-> 0]
Num(n) == [t |-> "number", s |-> <<>>, n |-> n]
Null == [t |-> "object", s |-> <<>>, n |-> 0]
Bool == [t |-> "boolean", s |-> <<>>, n |-> 1]

sendMessageTryNumberAsNoArg(m, objPtr, funcPtr, param, fault) ==
  IF param.t = "undefined" \/ param.t = "number"
  THEN [m |-> EntryPoint(m, "_SendMessage", objPtr, funcPtr, 0, fault), paramPtr |-> 0]
  ELSE IF param.t = "string"
  THEN LET r == stringToUTF8(m, param.s, fault)
       IN IF r.m.err # "none" THEN [m |-> r.m, paramPtr |-> 0]
          ELSE [m |-> EntryPoint(r.m, "_SendMessageString", objPtr, funcPtr, r.ptr, fault),
                paramPtr |-> r.ptr]
  ELSE [m |-> Throw(m, "Unsupported parameter type"), paramPtr |-> 0]

sendMessageTryNoTypeCheck(m, objPtr, funcPtr, param, fault) ==
  IF param.t = "string"
  THEN LET r == stringToUTF8(m, param.s, fault)
       IN IF r.m.err # "none" THEN [m |-> r.m, paramPtr |-> 0]
          ELSE [m |-> EntryPoint(r.m, "_SendMessageString", objPtr, funcPtr, r.ptr, fault),
                paramPtr |-> r.ptr]
  ELSE IF param.t = "number"
  THEN [m |-> EntryPoint(m, "_SendMessageFloat", objPtr, funcPtr, param.n, fault),
        paramPtr |-> 0]
  ELSE [m |-> EntryPoint(m, "_SendMessage", objPtr, funcPtr, 0, fault), paramPtr |-> 0]

sendMessageTrySwapped(m, objPtr, funcPtr, param, fault) ==
  IF param.t = "undefined"
  THEN [m |-> EntryPoint(m, "_SendMessage", funcPtr, objPtr, 0, fault), paramPtr |-> 0]
  ELSE IF param.t = "string"
  THEN LET r == stringToUTF8(m, param.s, fault)
       IN IF r.m.err # "none" THEN [m |-> r.m, paramPtr |-> 0]
          ELSE [m |-> EntryPoint(r.m, "_SendMessageString", funcPtr, objPtr, r.ptr, fault),
                paramPtr |-> r.ptr]
  ELSE IF param.t = "number"
  THEN [m |-> EntryPoint(m, "_SendMessageFloat", funcPtr, objPtr, param.n, fault),
        paramPtr |-> 0]
  ELSE [m |-> Throw(m, "Unsupported parameter type"), paramPtr |-> 0]

\* the try block, lines 146-155: the engine afterwards and the value of
\* paramPtr when the block is left
sendMessageTry(m, objPtr, funcPtr, param, fault) ==
  IF param.t = "undefined"
  THEN [m |-> EntryPoint(m, "_SendMessage", objPtr, funcPtr, 0, fault), paramPtr |-> 0]
  ELSE IF param.t = "string"
  THEN LET r == stringToUTF8(m, param.s, fault)
       IN IF r.m.err # "none" THEN [m |-> r.m, paramPtr |-> 0]
          ELSE [m |-> EntryPoint(r.m, "_SendMessageString", objPtr, funcPtr, r.ptr, fault),
                paramPtr |-> r.ptr]
  ELSE IF param.t = "number"
  THEN [m |-> EntryPoint(m, "_SendMessageFloat", objPtr, funcPtr, param.n, fault),
        paramPtr |-> 0]
  ELSE [m |-> Throw(m, "Unsupported parameter type"), paramPtr |-> 0]

\* Module._free(ptr); releasing the null pointer releases nothing
free(m, ptr) ==
  Log([m EXCEPT !.heap = @ \ {ptr}], Ev("_free", ptr, 0, 0, <<>>, FALSE))

\* the finally block, lines 156-160
sendMessageFinally(m, paramPtr, objPtr, funcPtr) ==
  free(free(free(m, paramPtr), objPtr), funcPtr)

\* lines 140-161
sendMessage(m0, gameObject, func, param, fault) ==
  LET f == stringToUTF8(m0, func, fault) IN
  IF f.m.err # "none" THEN f.m
  ELSE
  LET o == stringToUTF8(f.m, gameObject, fault) IN
  IF o.m.err # "none" THEN o.m
  ELSE
  LET t == sendMessageTry(o.m, o.ptr, f.ptr, param, fault)
  IN sendMessageFinally(t.m, t.paramPtr, o.ptr, f.ptr)

SendMessage(gameObject, func, param, fault) ==
  /\ LET m == sendMessage([abi |-> Module.abi, heap |-> heap, trace |-> <<>>,
                           n |-> 0, err |-> "none"],
                          gameObject, func, param, fault)
     IN /\ heap' = m.heap
        /\ call' = [kind |-> "sendMessage", abi |-> Module.abi,
                    gameObject |-> gameObject, func |-> func, param |-> param,
                    trace |-> m.trace, err |-> m.err, before |-> heap]
  /\ UNCHANGED <<steps, globals, environment, Module, detached, isReady, pc, awaited,
                 initPromise, fs, gl>>

\* ------------------------------------------------------------ the engine
\* the engine binary is instantiated on the configuration object and
\* attaches its allocator, string primitives, entry points and FS to it
EngineAttachABI ==
  /\ Module.hasHooks
  /\ ~Module.abi
  /\ Module' = [Module EXCEPT !.abi = TRUE]
  /\ UNCHANGED <<steps, globals, environment, detached, isReady, pc, awaited,
                 initPromise, heap, call, fs, gl>>

FsLog(f, e) == [f EXCEPT !.log = Append(@, e)]
FsThrow(f) == [f EXCEPT !.thrown = @ + 1]

mountHookAddAfterSync(f, hfault) ==
  LET f1 == FsLog(f, "FS.mkdir") IN
  IF hfault = 1 THEN FsThrow(f1) ELSE
  LET f2 == FsLog(f1, "FS.mount") IN
  IF hfault = 2 THEN FsThrow(f2) ELSE
  LET f3 == FsLog(f2, "FS.syncfs") IN
  IF hfault = 4 THEN FsThrow(f3) ELSE
  LET f4 == FsLog([f3 EXCEPT !.pending = @ + 1], "addRunDependency") IN
  IF hfault = 3 THEN FsThrow(f4) ELSE [f4 EXCEPT !.runDeps = @ + 1]

\* the hook pushed at line 87, run once; hfault names the call that throws
mountHook(f, hfault) ==
  LET f1 == FsLog(f, "FS.mkdir") IN
  IF hfault = 1 THEN FsThrow(f1) ELSE
  LET f2 == FsLog(f1, "FS.mount") IN
  IF hfault = 2 THEN FsThrow(f2) ELSE
  LET f3 == FsLog(f2, "addRunDependency") IN
  IF hfault = 3 THEN FsThrow(f3) ELSE
  LET f4 == FsLog([f3 EXCEPT !.runDeps = @ + 1], "FS.syncfs") IN
  IF hfault = 4 THEN FsThrow(f4) ELSE [f4 EXCEPT !.pending = @ + 1]

syncfsCallbackAbortOnError(f, err) ==
  IF err
  THEN FsLog([f EXCEPT !.warnings = @ + 1, !.pending = @ - 1], "console.warn")
  ELSE FsLog([f EXCEPT !.runDeps = @ - 1, !.pending = @ - 1], "removeRunDependency")

\* the callback of line 92
syncfsCallback(f, err) ==
  LET w == IF err THEN FsLog([f EXCEPT !.warnings = @ + 1], "console.warn") ELSE f
  IN FsLog([w EXCEPT !.runDeps = @ - 1, !.pending = @ - 1], "removeRunDependency")

RECURSIVE RunHooks(_, _, _)
RunHooks(f, hooks, hfault) ==
  IF hooks = <<>> \/ f.thrown > 0 THEN f
  ELSE RunHooks(mountHook(f, hfault), Tail(hooks), hfault)

\* the engine's pre-run stage calls every registered hook
EnginePreRun(hfault) ==
  /\ Module.abi
  /\ fs.runs < MaxPreRuns
  /\ fs.thrown = 0
  /\ fs' = [RunHooks(fs, Module.preRun, hfault) EXCEPT !.runs = @ + 1]
  /\ UNCHANGED <<steps, globals, environment, Module, detached, isReady, pc, awaited,
                 initPromise, heap, call, gl>>

SyncfsDone(err) ==
  /\ fs.pending > 0
  /\ fs' = syncfsCallback(fs, err)
  /\ UNCHANGED <<steps, globals, environment, Module, detached, isReady, pc, awaited,
                 initPromise, heap, call, gl>>

GLcreateContextUnchecked(got) ==
  [got |-> got, returned |-> got, thrown |-> "none"]

\* Module.GL.createContext, lines 107-111; got is what canvas.getContext gave
GLcreateContext(got) ==
  IF got = "null"
  THEN [got |-> got, returned |-> "none", thrown |-> "WebGL context creation failed"]
  ELSE [got |-> got, returned |-> got, thrown |-> "none"]

GLmakeContextCurrentIgnoresArgument(M, ctx) == [M EXCEPT !.ctx = "ctx"]

\* Module.GL.makeContextCurrent, lines 112-114
GLmakeContextCurrent(M, ctx) == [M EXCEPT !.ctx = ctx]

EngineCreateContext(got) ==
  /\ Module.GL
  /\ gl.calls < MaxContexts
  /\ LET r == GLcreateContext(got)
     IN gl' = [got |-> r.got, returned |-> r.returned, thrown |-> r.thrown,
               calls |-> gl.calls + 1, passed |-> gl.passed]
  /\ UNCHANGED <<steps, globals, environment, Module, detached, isReady, pc, awaited,
                 initPromise, heap, call, fs>>

EngineMakeContextCurrent(ctx) ==
  /\ Module.GL
  /\ Module.ctx # ctx
  /\ Module' = GLmakeContextCurrent(Module, ctx)
  /\ gl' = [gl EXCEPT !.passed = ctx]
  /\ UNCHANGED <<steps, globals, environment, detached, isReady, pc, awaited,
                 initPromise, heap, call, fs>>

\* ------------------------------------------------------- specifications
Targets == {<<80>>, <<233, 80>>}
Methods == {<<83>>}
Params == {Undefined, Str(<<>>), Str(<<8364>>), Num(0), Num(42), Null, Bool}
Faults == 0..MaxFault
HookFaults == 0..4
Contexts == {"ctx", "null"}

Next ==
  \/ Initialize
  \/ EngineAttachABI
  \/ \E hfault \in HookFaults : EnginePreRun(hfault)
  \/ \E err \in BOOLEAN : SyncfsDone(err)
  \/ \E got \in Contexts : EngineCreateContext(got)
  \/ \E ctx \in Contexts : EngineMakeContextCurrent(ctx)
  \/ \E param \in {Undefined, Null} : SendMessage(<<80>>, <<83>>, param, 0)

Spec == Init /\ [][Next]_vars

\* the call-in on a page: every argument shape, every engine call failing
SendNext ==
  \/ Initialize
  \/ EngineAttachABI
  \/ \E gameObject \in Targets, func \in Methods, param \in Params, fault \in Faults :
       SendMessage(gameObject, func, param, fault)

SendInit == Constructed(BrowserGlobals)

SendSpec == SendInit /\ [][SendNext]_vars

\* ------------------------------------------------- observing a call-in
EntryOps == {"_SendMessage", "_SendMessageString", "_SendMessageFloat"}
MarshalErrors == {"lengthBytesUTF8 threw", "_malloc threw", "stringToUTF8 threw"}
AcceptedTypes == {"undefined", "string", "number"}

IsEntry(e) == e.op \in EntryOps
IsMalloc(e) == e.op = "_malloc" /\ ~e.threw
IsFree(e) == e.op = "_free"

Dispatched == SelectSeq(call.trace, IsEntry)
Mallocs == SelectSeq(call.trace, IsMalloc)
Frees == SelectSeq(call.trace, IsFree)

ExpectedEntry(param) ==
  IF param.t = "undefined" THEN "_SendMessage"
  ELSE IF param.t = "string" THEN "_SendMessageString"
  ELSE "_SendMessageFloat"

Called == call.kind = "sendMessage"

\* C1: on a configuration object that provides the engine ABI, a call with
\* an absent, string or number argument enters only the entry point of that
\* shape and enters it at most once; it enters it exactly once whenever the
\* marshaling of its strings returned (a marshaling primitive that throws
\* ends the call before the dispatch).
C1_RoutesByArgumentShape ==
  (Called /\ call.abi /\ call.param.t \in AcceptedTypes) =>
     /\ Len(Dispatched) <= 1
     /\ \A i \in 1..Len(Dispatched) : Dispatched[i].op = ExpectedEntry(call.param)
     /\ (call.err \notin MarshalErrors => Len(Dispatched) = 1)

C1_Witness ==
  /\ Called /\ call.abi /\ call.param = Num(42) /\ call.err = "none"
  /\ Len(Dispatched) = 1
  /\ Dispatched[1].op = "_SendMessageFloat"

\* C2: a call whose argument is neither absent, a string nor a number
\* fails, enters none of the three entry points, and the error it fails
\* with is the unsupported-type error whenever the marshaling of target and
\* method returned.
C2_UnsupportedTypeFailsBeforeDispatch ==
  (Called /\ call.param.t \notin AcceptedTypes) =>
     /\ call.err # "none"
     /\ Dispatched = <<>>
     /\ (call.abi /\ call.err \notin MarshalErrors
           => call.err = "Unsupported parameter type")

C2_Witness ==
  /\ Called /\ call.abi /\ call.param = Null
  /\ call.err = "Unsupported parameter type"
  /\ Len(Frees) = 3

\* C3: every call frees exactly the buffers it allocated: as many _free
\* calls as _malloc calls, every freed pointer came from a _malloc of the
\* same call, and no pointer is freed twice.
C3_FreesExactlyWhatItAllocated ==
  Called =>
     /\ Len(Frees) = Len(Mallocs)
     /\ \A i \in 1..Len(Frees) : \E j \in 1..Len(Mallocs) : Mallocs[j].b = Frees[i].a
     /\ \A i, j \in 1..Len(Frees) : Frees[i].a = Frees[j].a => i = j

\* C4: when a call ends with an error, no buffer it allocated is still
\* allocated, wherever the error was raised.
C4_NoBufferOutstandingOnError ==
  (Called /\ call.err # "none") =>
     \A i \in 1..Len(Mallocs) : Mallocs[i].b \notin heap

\* C5: once initialize() has set the ready flag the readiness signal of
\* the configuration object is resolved.
C5_ReadyFlagMeansSignalResolved ==
  isReady => Module.ready = "resolved"

\* C6: after a setup step failed the readiness signal is rejected and the
\* loader stays non-ready, with no step run again.
C6_FailureRejectsSignal ==
  pc = "failed" => (Module.ready = "rejected" /\ ~isReady)

\* C7: when a setup step throws, the promise of initialize() rejects with
\* a UnityError whose cause is the error that step threw, and the ready
\* flag is not set; the promise rejects for no other reason.
C7_InitFailureWrapsCause ==
  /\ (~awaited.ok => ~isReady /\ pc \in {"getScriptDirectory", "setupAudio", "failed"})
  /\ (pc = "failed" =>
        /\ ~awaited.ok
        /\ awaited.error # "none"
        /\ initPromise.state = "rejected"
        /\ initPromise.reason.name = "UnityError"
        /\ initPromise.reason.cause = awaited.error
        /\ ~isReady)
  /\ (initPromise.state = "rejected" => pc = "failed")

C7_Witness ==
  /\ pc = "failed"
  /\ Module.GL
  /\ initPromise.reason.cause = "TypeError: not a constructor"

AllFlagsFalse ==
  ~environment.isWeb /\ ~environment.isWorker /\ ~environment.isNode

Settled == pc \in {"done", "failed"}

\* C8: with all three environment flags false and no window global the
\* script path is the empty string and initialize() completes: the ready
\* flag is set and the promise fulfils.
C8_NoEnvironmentStillCompletes ==
  (AllFlagsFalse /\ globals.window = "undeclared" /\ Settled) =>
     /\ Module.scriptDirectory = ""
     /\ isReady
     /\ initPromise.state = "fulfilled"

WebGLFailed == "WebGL context creation failed"

\* C9 as stated: once canvas.getContext has returned a falsy value (and no
\* other setup step threw) the promise of initialize() is rejected with a
\* UnityError wrapping the WebGL failure and the ready flag is not set.
C9_FalsyContextRejectsInitialize ==
  (gl.got = "null" /\ Settled /\ awaited.ok) =>
     /\ initPromise.state = "rejected"
     /\ initPromise.reason.name = "UnityError"
     /\ initPromise.reason.cause = WebGLFailed
     /\ ~isReady

\* C9 as the code has it: when canvas.getContext returns a falsy value the
\* installed factory throws 'WebGL context creation failed' to whoever
\* called it and returns nothing; the promise of initialize(), its position
\* and the ready flag are untouched by that call, and the promise is never
\* rejected with that cause.
C9_FalsyContextThrowsToCaller ==
  [][ /\ (gl' # gl /\ gl'.got = "null") =>
           /\ gl'.thrown = WebGLFailed
           /\ gl'.returned = "none"
           /\ initPromise' = initPromise
           /\ isReady' = isReady
           /\ pc' = pc
      /\ initPromise'.reason.cause # WebGLFailed ]_vars

C9_Witness ==
  /\ gl.got = "null"
  /\ gl.thrown = WebGLFailed
  /\ isReady
  /\ initPromise.state = "fulfilled"

\* C10: with the worker flag set the mount hook is never registered: the
\* preRun list stays empty and no FS.mkdir, FS.mount, FS.syncfs,
\* addRunDependency or removeRunDependency call is ever made.
C10_WorkerNeverRegistersHook ==
  environment.isWorker =>
     /\ Module.preRun = <<>>
     /\ fs.log = <<>>
     /\ fs.runDeps = 0
     /\ fs.pending = 0

C10_Witness ==
  /\ environment.isWorker
  /\ isReady
  /\ Module.hasHooks
  /\ fs.runs > 0

\* ------------------------------------------ observing the mount hook
RECURSIVE Count(_, _)
Count(log, e) ==
  IF log = <<>> THEN 0
  ELSE (IF Head(log) = e THEN 1 ELSE 0) + Count(Tail(log), e)

Prefix(log, k) == SubSeq(log, 1, k)

\* C11: every invocation of the sync callback removes the run-dependency
\* token, with or without an error: the callback lowers the count by one
\* and ends with removeRunDependency, an error adds only a console.warn
\* before it; when no hook call threw and no callback is outstanding the
\* count is back at its value before the hooks ran.
C11_SyncCallbackClearsToken ==
  [][ /\ (fs'.pending < fs.pending) =>
           /\ fs'.pending = fs.pending - 1
           /\ fs'.runDeps = fs.runDeps - 1
           /\ fs'.log[Len(fs'.log)] = "removeRunDependency"
           /\ fs'.warnings - fs.warnings \in {0, 1}
           /\ Len(fs'.log) = Len(fs.log) + 1 + (fs'.warnings - fs.warnings)
           /\ fs'.thrown = fs.thrown
      /\ (fs'.thrown = 0 => fs'.runDeps = fs'.pending) ]_vars

C11_Witness ==
  /\ fs.warnings > 0
  /\ fs.pending = 0
  /\ fs.runDeps = 0
  /\ Count(fs.log, "addRunDependency") > 0
  /\ Count(fs.log, "removeRunDependency") = Count(fs.log, "addRunDependency")

InitOrder ==
  <<"getScriptDirectory", "createModule", "setupFilesystem", "setupWebGL",
    "setupAudio">>

\* C12: initialize() runs its steps in the order script path, module,
\* filesystem hook, WebGL factory, audio; the step it awaits is the last
\* one started, a step that threw is the last one ever started, the
\* effects of a step are present exactly when it has run, and the ready
\* flag is set only after all five have completed.
C12_StepsInStrictSequence ==
  /\ Len(steps) <= Len(InitOrder)
  /\ steps = Prefix(InitOrder, Len(steps))
  /\ (pc \notin {"done", "failed"} => steps[Len(steps)] = pc)
  /\ (awaited.error = "ReferenceError: __filename is not defined" => Len(steps) = 1)
  /\ (~awaited.ok /\ Len(steps) > 1 => Len(steps) = 5 /\ Module.WEBAudio = "absent")
  /\ (Module.hasHooks <=> Len(steps) >= 3)
  /\ (Module.hasHooks => Module.ready = "pending" /\ Module.postRun = <<>>)
  /\ (Module.preRun # <<>> => Len(steps) >= 3)
  /\ (Module.GL <=> Len(steps) >= 4)
  /\ (Module.WEBAudio # "absent" => Len(steps) = 5)
  /\ (isReady => steps = InitOrder /\ awaited.ok /\ pc = "done"
                   /\ Module.WEBAudio # "absent")

C12_Witness ==
  /\ isReady
  /\ steps = InitOrder
  /\ Module.preRun = <<"mountIDBFS">>

\* C13: once createModule has run, the configuration object the loader
\* holds carries the resolve and reject handles of its readiness promise.
C13_ModuleCarriesHandles ==
  Module.hasHooks => (Module.readyPromiseResolve /\ Module.readyPromiseReject)

\* C14: the calls of the hook come in the order FS.mkdir, FS.mount,
\* addRunDependency, FS.syncfs; at every point the removals are at most the
\* syncs started, which are at most the tokens added; a removal happens
\* only in a step that consumes one pending sync callback, and once in it.
C14_HookOrderAndBalance ==
  [][ fs' # fs =>
      /\ \A i \in 1..Len(fs'.log) :
           /\ fs'.log[i] = "FS.mount" => (i > 1 /\ fs'.log[i - 1] = "FS.mkdir")
           /\ fs'.log[i] = "addRunDependency" => (i > 1 /\ fs'.log[i - 1] = "FS.mount")
           /\ fs'.log[i] = "FS.syncfs" => (i > 1 /\ fs'.log[i - 1] = "addRunDependency")
      /\ \A k \in 0..Len(fs'.log) :
           /\ Count(Prefix(fs'.log, k), "removeRunDependency")
                <= Count(Prefix(fs'.log, k), "FS.syncfs")
           /\ Count(Prefix(fs'.log, k), "FS.syncfs")
                <= Count(Prefix(fs'.log, k), "addRunDependency")
      /\ Count(fs'.log, "removeRunDependency") # Count(fs.log, "removeRunDependency") =>
           /\ Count(fs'.log, "removeRunDependency")
                = Count(fs.log, "removeRunDependency") + 1
           /\ fs.pending > 0
           /\ fs'.pending = fs.pending - 1 ]_vars

C14_Witness ==
  fs.log = <<"FS.mkdir", "FS.mount", "addRunDependency", "FS.syncfs",
             "removeRunDependency">>

\* C15: outside a worker initialize() registers exactly one hook and does
\* not run it: no step of initialize() makes an FS or run-dependency call,
\* and such calls exist only once the engine has run its pre-run stage.
C15_HookRegisteredNotExecuted ==
  /\ [](~environment.isWorker =>
          Module.preRun = IF Module.hasHooks THEN <<"mountIDBFS">> ELSE <<>>)
  /\ []((fs.log # <<>> \/ fs.runDeps # 0 \/ fs.pending # 0) => fs.runs > 0)
  /\ [][pc' # pc => fs' = fs]_vars

C15_Witness ==
  /\ ~environment.isWorker
  /\ isReady
  /\ Module.abi
  /\ Module.preRun = <<"mountIDBFS">>
  /\ fs = NoFs

IsEncoded(e) == e.op = "stringToUTF8" /\ ~e.threw

\* the buffer at ptr was allocated and filled with str before position i
Holds(ptr, str, i) ==
  \E j, k \in 1..(i - 1) :
     /\ j < k
     /\ IsMalloc(call.trace[j]) /\ call.trace[j].b = ptr
     /\ IsEncoded(call.trace[k]) /\ call.trace[k].a = ptr /\ call.trace[k].s = str

FreedAfter(ptr, i) ==
  /\ \E k \in (i + 1)..Len(call.trace) : IsFree(call.trace[k]) /\ call.trace[k].a = ptr
  /\ \A k \in 1..i : ~IsFree(call.trace[k])

\* C16: every dispatch receives the buffer holding the target name first and
\* the buffer holding the method name second; these buffers (and the
\* argument buffer of a string argument) are allocated and filled before
\* the dispatch and freed only after it; a number needs no third buffer
\* and is passed as it is.
C16_DispatchReceivesLiveBuffers ==
  Called =>
    \A i \in 1..Len(call.trace) :
       IsEntry(call.trace[i]) =>
         LET e == call.trace[i] IN
         /\ e.a # e.b
         /\ Holds(e.a, call.gameObject, i) /\ FreedAfter(e.a, i)
         /\ Holds(e.b, call.func, i) /\ FreedAfter(e.b, i)
         /\ (call.param.t = "string" =>
               /\ e.c \notin {e.a, e.b}
               /\ Holds(e.c, call.param.s, i) /\ FreedAfter(e.c, i))
         /\ (call.param.t = "number" => e.c = call.param.n /\ Len(Mallocs) = 2)
         /\ (call.param.t = "undefined" => Len(Mallocs) = 2)

C16_Witness ==
  /\ Called /\ call.param = Str(<<8364>>) /\ call.err = "none"
  /\ Len(Dispatched) = 1
  /\ Len(Mallocs) = 3
  /\ heap = call.before

\* C17: the installed factory never returns a falsy value: it returns the
\* context the canvas gave or throws 'WebGL context creation failed'; and
\* Module.ctx is only ever the value last passed to makeContextCurrent.
C17_FactoryNeverReturnsFalsy ==
  /\ gl.returned # "null"
  /\ (gl.calls > 0 =>
        \/ gl.got = "ctx" /\ gl.returned = "ctx" /\ gl.thrown = "none"
        \/ gl.got = "null" /\ gl.returned = "none" /\ gl.thrown = WebGLFailed)
  /\ Module.ctx = gl.passed

C17_Witness ==
  /\ gl.got = "ctx"
  /\ gl.returned = "ctx"
  /\ Module.ctx = "null"

\* C18: a sendMessage that runs while the configuration object does not
\* provide the engine ABI fails with no _malloc, no _free and no dispatch,
\* and changes neither the heap, the ready flag, the configuration object
\* nor the progress of initialize().
C18_NoAbiCallFailsWithoutEffect ==
  /\ []((Called /\ ~call.abi) => (call.err # "none" /\ call.trace = <<>>))
  /\ [][(call' # call /\ ~call'.abi) =>
          /\ ~Module.abi
          /\ heap' = heap
          /\ isReady' = isReady
          /\ Module' = Module
          /\ detached' = detached
          /\ pc' = pc
          /\ initPromise' = initPromise]_vars

C18_Witness ==
  /\ Called /\ ~call.abi
  /\ pc = "getScriptDirectory"
  /\ Module = EmptyObject
  /\ call.err = "TypeError: Module.lengthBytesUTF8 is not a function"

\* C19: ready flag true implies the configuration object has the WebGL
\* factory and the audio subsystem and, outside a worker, exactly one
\* pre-run hook; and a ready flag that is true stays true.
C19_ReadyImpliesInstalledAndStable ==
  /\ [](isReady =>
          /\ Module.GL
          /\ Module.WEBAudio # "absent"
          /\ (~environment.isWorker => Len(Module.preRun) = 1))
  /\ [][isReady => isReady']_vars

C19_Witness ==
  /\ isReady
  /\ ~environment.isWorker
  /\ Called
  /\ fs.runs > 0
  /\ gl.calls > 0
====
